---- MODULE Spec2Model ----
(***************************************************************************)
(* Model of src/src/platform.rs: the BaseWindow capability interface and   *)
(* its three backends (windows::OsWindow, linux::OsWindow,                 *)
(* macos::OsWindow).                                                       *)
(*                                                                         *)
(* The build is fixed in the initial state: `backend` is the cfg(target)   *)
(* that selects the OsWindow type alias, `windowless` the cargo feature.   *)
(* Every trait method is one action.  A method is translated into the      *)
(* sequence of foreign calls it makes (`calls`), the panic it raises, the  *)
(* value it returns and the fields it leaves in `self`; the foreign calls  *)
(* are then run against the environment (OS windows, the message queue,    *)
(* the engine) by ApplyCall.                                               *)
(***************************************************************************)
EXTENDS Integers, Sequences, FiniteSets, TLC

\* ---------------------------------------------------------------- bounds
\* At most NumInst OsWindow values and MaxHandles native windows, MaxObjects of
\* both together; MaxQueue posted messages; MaxInit runs of application init.
NumInst == 2
MaxHandles == 2
MaxObjects == 3
MaxQueue == 1
MaxInit == 2

\* ------------------------------------------------------------- constants
\* ShowWindow commands and the close message, as the Windows backend writes them.
SW_HIDE == 0
SW_MINIMIZE == 6
SW_SHOWMAXIMIZED == 3
SW_SHOWNORMAL == 1
WM_CLOSE == 16

Backends == {"windows", "linux", "macos"}
Inst == 1..NumInst
Handles == 1..MaxHandles
NullHandle == 0

\* SCITER_CREATE_WINDOW_FLAGS, as the set of the bits that are set.
SW_MAIN == "SW_MAIN"
SW_TITLEBAR == "SW_TITLEBAR"

\* RECT
Rect(l, t, r, b) == [left |-> l, top |-> t, right |-> r, bottom |-> b]

\* The create calls the host makes: a main window with a title bar, a child of
\* window 1 with a zero-area rectangle, a window with a rectangle of negative
\* width.
CreateRequests ==
  { [rc |-> Rect(0, 0, 800, 600), flags |-> {SW_MAIN, SW_TITLEBAR}, parent |-> NullHandle],
    [rc |-> Rect(0, 0, 0, 0), flags |-> {}, parent |-> 1],
    [rc |-> Rect(100, 100, 50, 300), flags |-> {}, parent |-> NullHandle] }

\* *const RECT: a pointer to the caller's rectangle, or null.
PtrTo(rc) == [null |-> FALSE, rc |-> rc]
NullRect == [null |-> TRUE, rc |-> Rect(0, 0, 0, 0)]

\* &str, as the sequence of its characters; LPCWSTR as UTF-16 code units.
Chars == {"a", "b"}
Texts == {<<"b", "a">>}
CodeUnit(c) == IF c = "a" THEN 97 ELSE 98
CharOf(u) == IF u = 97 THEN "a" ELSE "b"

\* Panic messages.
NoPanic == ""
CreateFailed == "Failed to create window!"
NotImplemented == "not implemented"
WindowIsNull == "assertion failed: !obj.is_null()"

\* -------------------------------------------------------- foreign calls
\* One foreign call: the function or selector, and the arguments it was given.
\* `ret` is what the callee answered where the caller reads the answer.
Call(fn) ==
  [fn |-> fn, cmd |-> "", hwnd |-> NullHandle, n |-> 0, text |-> <<>>,
   flags |-> {}, prc |-> NullRect, parent |-> NullHandle, ret |-> 0]

\* What a method did: the foreign calls in order, the panic that ended it
\* (NoPanic: it returned), the handle or the text returned, and self's fields
\* afterwards.
Result(calls, panic, ret, title, hwnd, flags) ==
  [calls |-> calls, panic |-> panic, ret |-> ret, title |-> title, hwnd |-> hwnd,
   flags |-> flags]

\* ------------------------------------------------------ text conversion
RECURSIVE s2w_units(_)
s2w_units(t) == IF t = <<>> THEN <<>> ELSE <<CodeUnit(Head(t))>> \o s2w_units(Tail(t))

\* s2w!: the UTF-16 code units of the text and a terminating NUL.
s2w(t) == s2w_units(t) \o <<0>>

\* w2s: the text up to the first NUL of the buffer.
RECURSIVE w2s(_)
w2s(buf) ==
  IF buf = <<>> \/ Head(buf) = 0 THEN <<>> ELSE <<CharOf(Head(buf))>> \o w2s(Tail(buf))

\* The code units of a NUL-terminated wide string, without the terminator.
RECURSIVE wcs(_)
wcs(buf) == IF buf = <<>> \/ Head(buf) = 0 THEN <<>> ELSE <<Head(buf)>> \o wcs(Tail(buf))

\* NSString::from_str
NSString_from_str(t) == s2w_units(t)

Zeros(n) == [k \in 1..n |-> 0]

\* ------------------------------------------------------------- windows
\* A native window as the OS or the engine holds it.
NoWindow == [st |-> "none", visible |-> FALSE, mini |-> FALSE, zoomed |-> FALSE, title |-> <<>>]
NewWindow == [NoWindow EXCEPT !.st = "open"]
ClosedWindow == [NoWindow EXCEPT !.st = "closed"]

\* WindowState of the spec's data model, observed from a native window.
WindowState(w) ==
  IF w.st = "closed" THEN "Closed"
  ELSE IF ~w.visible THEN "Hidden"
  ELSE IF w.mini THEN "Minimized"
  ELSE IF w.zoomed THEN "Maximized"
  ELSE "Shown"

\* user32 ShowWindow(hwnd, n) on an existing window.  SW_HIDE and SW_MINIMIZE keep
\* the placement the window is later restored to; every command this layer sends
\* to show a window (SW_SHOWNORMAL, SW_SHOWMAXIMIZED) overwrites it, so it is not
\* kept here.
ShowWindow(w, n) ==
  IF n = SW_HIDE THEN [w EXCEPT !.visible = FALSE, !.mini = FALSE, !.zoomed = FALSE]
  ELSE IF n = SW_MINIMIZE THEN [w EXCEPT !.visible = TRUE, !.mini = TRUE, !.zoomed = FALSE]
  ELSE IF n = SW_SHOWMAXIMIZED THEN [w EXCEPT !.visible = TRUE, !.mini = FALSE, !.zoomed = TRUE]
  ELSE IF n = SW_SHOWNORMAL THEN [w EXCEPT !.visible = TRUE, !.mini = FALSE, !.zoomed = FALSE]
  ELSE w

\* Engine: SciterWindowExec(hwnd, SCITER_WINDOW_SET_STATE, state, 0).
SciterWindowSetState(w, s) ==
  IF s = "SCITER_WINDOW_STATE_HIDDEN" THEN [w EXCEPT !.visible = FALSE, !.mini = FALSE, !.zoomed = FALSE]
  ELSE IF s = "SCITER_WINDOW_STATE_MINIMIZED" THEN [w EXCEPT !.visible = TRUE, !.mini = TRUE, !.zoomed = FALSE]
  ELSE IF s = "SCITER_WINDOW_STATE_MAXIMIZED" THEN [w EXCEPT !.visible = TRUE, !.mini = FALSE, !.zoomed = TRUE]
  ELSE IF s = "SCITER_WINDOW_STATE_SHOWN" THEN [w EXCEPT !.visible = TRUE, !.mini = FALSE, !.zoomed = FALSE]
  ELSE IF s = "SCITER_WINDOW_STATE_CLOSED" THEN ClosedWindow
  ELSE w

\* AppKit: a message sent to an NSWindow.
NSWindowSend(w, sel, text) ==
  IF sel = "orderOut:" THEN [w EXCEPT !.visible = FALSE]
  ELSE IF sel = "performMiniaturize:" THEN [w EXCEPT !.mini = TRUE]
  ELSE IF sel = "makeKeyAndOrderFront:" THEN [w EXCEPT !.visible = TRUE, !.mini = FALSE]
  ELSE IF sel = "performZoom:" THEN [w EXCEPT !.zoomed = ~w.zoomed]
  ELSE IF sel = "close" THEN ClosedWindow
  ELSE IF sel = "setTitle:" THEN [w EXCEPT !.title = text]
  ELSE w

\* ---------------------------------------------------------------- state
VARIABLES
  backend,     \* the cfg(target) the crate was built for
  windowless,  \* whether the crate was built with feature "windowless"
  proc,        \* "running", "panicked" (a panic! ended it), "exited" (the OS ended it)
  diag,        \* the message of the panic that ended the process
  inst,        \* the OsWindow values: hwnd, flags, and `made`: "none" (not built yet),
               \* "new" or "from" (built so, create not yet returned), "created"
  wins,        \* the native windows, by handle
  initCount,   \* how many times application-level init has run in this process
  queue,       \* the close messages posted to the thread's message queue
  quitPosted,  \* a quit/stop signal is pending in the event source
  runState,    \* where run_app is: "idle", "waiting", "dispatching", "returned"
  lastCreate,  \* the create call the latest step made (arguments, foreign calls,
               \* outcome); NoCreate when the latest step was no create call
  hist         \* history: quit_app has been called; the engine has ended the loop
               \* on a window's close; dismiss has been called from a handler
               \* run_app dispatched to

vars == <<backend, windowless, proc, diag, inst, wins, initCount, queue, quitPosted,
          runState, lastCreate, hist>>

NoCreate ==
  [inst |-> 0, rc |-> Rect(0, 0, 0, 0), flags |-> {}, parent |-> NullHandle,
   calls |-> <<>>, panic |-> NoPanic, ret |-> NullHandle]

Init ==
  /\ backend \in Backends
  /\ windowless \in BOOLEAN
  /\ proc = "running"
  /\ diag = NoPanic
  /\ inst = [i \in Inst |-> [made |-> "none", hwnd |-> NullHandle, flags |-> {}]]
  /\ wins = [h \in Handles |-> NoWindow]
  /\ initCount = 0
  /\ queue = <<>>
  /\ quitPosted = FALSE
  /\ runState = "idle"
  /\ lastCreate = NoCreate
  /\ hist = [quit |-> FALSE, engineQuit |-> FALSE, dismissInRun |-> FALSE]

WinOf(h) == IF h \in Handles THEN wins[h] ELSE NoWindow
Allocated == {h \in Handles : wins[h].st # "none"}
Built == {i \in Inst : inst[i].made # "none"}
Objects == Cardinality(Built) + Cardinality(Allocated)

\* ------------------------------------------------------- the environment
\* The effect of one foreign call on the OS, the engine and the event source.
ApplyCall(e, c) ==
  LET valid == c.hwnd \in Handles /\ e.wins[c.hwnd].st = "open" IN
  CASE c.fn \in {"OleInitialize", "setActivationPolicy:"} ->
         [e EXCEPT !.initCount = @ + 1]
    [] c.fn = "SciterExec" /\ c.cmd = "SCITER_APP_INIT" ->
         [e EXCEPT !.initCount = @ + 1]
    [] c.fn = "SciterExec" /\ c.cmd = "SCITER_APP_STOP" ->
         [e EXCEPT !.quitPosted = TRUE]
    [] c.fn = "PostQuitMessage" ->
         [e EXCEPT !.quitPosted = TRUE]
    [] c.fn = "terminate:" ->
         [e EXCEPT !.proc = "exited"]
    [] c.fn = "SciterCreateWindow" /\ c.ret # NullHandle ->
         [e EXCEPT !.wins[c.ret] = NewWindow]
    [] c.fn = "ShowWindow" /\ valid ->
         [e EXCEPT !.wins[c.hwnd] = ShowWindow(@, c.n)]
    [] c.fn = "PostMessageW" /\ valid ->
         [e EXCEPT !.queue = Append(@, [kind |-> "close", hwnd |-> c.hwnd])]
    [] c.fn = "SetWindowTextW" /\ valid ->
         [e EXCEPT !.wins[c.hwnd].title = wcs(c.text)]
    [] c.fn = "SciterWindowExec" /\ valid ->
         [e EXCEPT !.wins[c.hwnd] = SciterWindowSetState(@, c.cmd)]
    [] c.fn \in {"orderOut:", "performMiniaturize:", "makeKeyAndOrderFront:",
                 "performZoom:", "close", "setTitle:"} /\ valid ->
         [e EXCEPT !.wins[c.hwnd] = NSWindowSend(@, c.fn, c.text)]
    [] OTHER -> e

RECURSIVE Exec(_, _)
Exec(calls, e) == IF calls = <<>> THEN e ELSE Exec(Tail(calls), ApplyCall(e, Head(calls)))

Env == [wins |-> wins, queue |-> queue, quitPosted |-> quitPosted,
        initCount |-> initCount, proc |-> proc]

\* ------------------------------------------------------ windows backend
windows_new == [made |-> "new", hwnd |-> NullHandle, flags |-> {}]

\* windows_from that builds the instance without the handle it was given.
windows_from_drops_handle(hwnd) == [made |-> "from", hwnd |-> NullHandle, flags |-> {}]

windows_from(hwnd) == [made |-> "from", hwnd |-> hwnd, flags |-> {}]

windows_init_app == <<Call("OleInitialize")>>

windows_get_hwnd(self) == Result(<<>>, NoPanic, self.hwnd, <<>>, self.hwnd, self.flags)

\* windows_create without `self.hwnd = hwnd`: the handle is returned to the
\* caller and not stored.
windows_create_handle_not_stored(self, rc, flags, parent, ret) ==
  LET init == IF SW_MAIN \in flags THEN windows_init_app ELSE <<>>
      cw == [Call("SciterCreateWindow") EXCEPT
               !.flags = flags, !.prc = PtrTo(rc), !.parent = parent, !.ret = ret]
  IN IF windowless
       THEN Result(init, NoPanic, self.hwnd, <<>>, self.hwnd, flags)
     ELSE IF ret = NullHandle
       THEN Result(init \o <<cw>>, CreateFailed, NullHandle, <<>>, self.hwnd, flags)
     ELSE Result(init \o <<cw>>, NoPanic, ret, <<>>, self.hwnd, flags)

\* windows_create with the cfg(feature = "windowless") branch missing: the
\* engine is asked for a window in every build.
windows_create_always_allocates(self, rc, flags, parent, ret) ==
  LET init == IF SW_MAIN \in flags THEN windows_init_app ELSE <<>>
      cw == [Call("SciterCreateWindow") EXCEPT
               !.flags = flags, !.prc = PtrTo(rc), !.parent = parent, !.ret = ret]
  IN IF ret = NullHandle
       THEN Result(init \o <<cw>>, CreateFailed, NullHandle, <<>>, ret, flags)
     ELSE Result(init \o <<cw>>, NoPanic, ret, <<>>, ret, flags)

\* `ret` is the handle the engine answers SciterCreateWindow with.
windows_create(self, rc, flags, parent, ret) ==
  LET init == IF SW_MAIN \in flags THEN windows_init_app ELSE <<>>
      cw == [Call("SciterCreateWindow") EXCEPT
               !.flags = flags, !.prc = PtrTo(rc), !.parent = parent, !.ret = ret]
  IN IF windowless
       THEN Result(init, NoPanic, self.hwnd, <<>>, self.hwnd, flags)
     ELSE IF ret = NullHandle
       THEN Result(init \o <<cw>>, CreateFailed, NullHandle, <<>>, ret, flags)
     ELSE Result(init \o <<cw>>, NoPanic, ret, <<>>, ret, flags)

windows_collapse(self, hide) ==
  LET n == IF hide THEN SW_HIDE ELSE SW_MINIMIZE
  IN Result(<<[Call("ShowWindow") EXCEPT !.hwnd = self.hwnd, !.n = n]>>,
            NoPanic, NullHandle, <<>>, self.hwnd, self.flags)

windows_expand(self, maximize) ==
  LET n == IF maximize THEN SW_SHOWMAXIMIZED ELSE SW_SHOWNORMAL
  IN Result(<<[Call("ShowWindow") EXCEPT !.hwnd = self.hwnd, !.n = n]>>,
            NoPanic, NullHandle, <<>>, self.hwnd, self.flags)

\* windows_dismiss that ends the message loop as well.
windows_dismiss_posts_quit(self) ==
  Result(<<[Call("PostMessageW") EXCEPT !.hwnd = self.hwnd, !.n = WM_CLOSE],
           Call("PostQuitMessage")>>,
         NoPanic, NullHandle, <<>>, self.hwnd, self.flags)

\* windows_dismiss that forgets the handle of the window it asked to close.
windows_dismiss_clears_handle(self) ==
  Result(<<[Call("PostMessageW") EXCEPT !.hwnd = self.hwnd, !.n = WM_CLOSE]>>,
         NoPanic, NullHandle, <<>>, NullHandle, self.flags)

windows_dismiss(self) ==
  Result(<<[Call("PostMessageW") EXCEPT !.hwnd = self.hwnd, !.n = WM_CLOSE]>>,
         NoPanic, NullHandle, <<>>, self.hwnd, self.flags)

windows_set_title(self, title) ==
  LET s == s2w(title)
  IN Result(<<[Call("SetWindowTextW") EXCEPT !.hwnd = self.hwnd, !.text = s]>>,
            NoPanic, NullHandle, <<>>, self.hwnd, self.flags)

\* user32 GetWindowTextLengthW: 0 for a handle that names no window.
GetWindowTextLengthW(w) == IF w.st = "open" THEN Len(w.title) ELSE 0

\* user32 GetWindowTextW(hwnd, buf, n): at most n - 1 code units and a NUL are
\* written to the buffer; nothing is written for a handle that names no window.
GetWindowTextW(w, buf, n) ==
  IF w.st # "open" \/ n <= 0 THEN buf
  ELSE LET k == IF Len(w.title) < n - 1 THEN Len(w.title) ELSE n - 1
       IN [j \in 1..Len(buf) |-> IF j <= k THEN w.title[j] ELSE 0]

\* `w` is the window self.hwnd names when the method runs.
windows_get_title(self, w) ==
  LET n == GetWindowTextLengthW(w) + 1
      title == Zeros(n)
      filled == GetWindowTextW(w, title, n)
  IN Result(<<[Call("GetWindowTextLengthW") EXCEPT !.hwnd = self.hwnd],
              [Call("GetWindowTextW") EXCEPT !.hwnd = self.hwnd, !.n = n]>>,
            NoPanic, NullHandle, w2s(filled), self.hwnd, self.flags)

windows_quit_app(self) ==
  Result(<<Call("PostQuitMessage")>>, NoPanic, NullHandle, <<>>, self.hwnd, self.flags)

\* -------------------------------------------------------- linux backend
linux_new == [made |-> "new", hwnd |-> NullHandle, flags |-> {}]

linux_from(hwnd) == [made |-> "from", hwnd |-> hwnd, flags |-> {}]

linux_init_app == <<[Call("SciterExec") EXCEPT !.cmd = "SCITER_APP_INIT"]>>

linux_window(self) == self.hwnd

linux_get_hwnd(self) == Result(<<>>, NoPanic, self.hwnd, <<>>, self.hwnd, self.flags)

\* linux_create without the `if hwnd.is_null()` check.
linux_create_unchecked(self, rc, flags, parent, ret) ==
  LET init == IF SW_MAIN \in flags THEN linux_init_app ELSE <<>>
      cw == [Call("SciterCreateWindow") EXCEPT
               !.flags = flags, !.prc = PtrTo(rc), !.parent = parent, !.ret = ret]
  IN IF windowless
       THEN Result(init, NoPanic, self.hwnd, <<>>, self.hwnd, flags)
     ELSE Result(init \o <<cw>>, NoPanic, ret, <<>>, ret, flags)

\* linux_create without `self.flags = flags`.
linux_create_flags_not_recorded(self, rc, flags, parent, ret) ==
  LET init == IF SW_MAIN \in flags THEN linux_init_app ELSE <<>>
      cw == [Call("SciterCreateWindow") EXCEPT
               !.flags = flags, !.prc = PtrTo(rc), !.parent = parent, !.ret = ret]
  IN IF windowless
       THEN Result(init, NoPanic, self.hwnd, <<>>, self.hwnd, self.flags)
     ELSE IF ret = NullHandle
       THEN Result(init \o <<cw>>, CreateFailed, NullHandle, <<>>, ret, self.flags)
     ELSE Result(init \o <<cw>>, NoPanic, ret, <<>>, ret, self.flags)

linux_create(self, rc, flags, parent, ret) ==
  LET init == IF SW_MAIN \in flags THEN linux_init_app ELSE <<>>
      cw == [Call("SciterCreateWindow") EXCEPT
               !.flags = flags, !.prc = PtrTo(rc), !.parent = parent, !.ret = ret]
  IN IF windowless
       THEN Result(init, NoPanic, self.hwnd, <<>>, self.hwnd, flags)
     ELSE IF ret = NullHandle
       THEN Result(init \o <<cw>>, CreateFailed, NullHandle, <<>>, ret, flags)
     ELSE Result(init \o <<cw>>, NoPanic, ret, <<>>, ret, flags)

linux_set_state(self, state) ==
  Result(<<[Call("SciterWindowExec") EXCEPT !.hwnd = linux_window(self), !.cmd = state]>>,
         NoPanic, NullHandle, <<>>, self.hwnd, self.flags)

linux_collapse(self, hide) ==
  IF hide THEN linux_set_state(self, "SCITER_WINDOW_STATE_HIDDEN")
  ELSE linux_set_state(self, "SCITER_WINDOW_STATE_MINIMIZED")

linux_expand(self, maximize) ==
  IF maximize THEN linux_set_state(self, "SCITER_WINDOW_STATE_MAXIMIZED")
  ELSE linux_set_state(self, "SCITER_WINDOW_STATE_SHOWN")

linux_dismiss(self) == linux_set_state(self, "SCITER_WINDOW_STATE_CLOSED")

linux_set_title(self, title) ==
  Result(<<>>, NotImplemented, NullHandle, <<>>, self.hwnd, self.flags)

linux_get_title(self) ==
  Result(<<>>, NotImplemented, NullHandle, <<>>, self.hwnd, self.flags)

linux_quit_app(self) ==
  Result(<<[Call("SciterExec") EXCEPT !.cmd = "SCITER_APP_STOP"]>>,
         NoPanic, NullHandle, <<>>, self.hwnd, self.flags)

\* -------------------------------------------------------- macos backend
macos_new == [made |-> "new", hwnd |-> NullHandle, flags |-> {}]

macos_from(hwnd) == [made |-> "from", hwnd |-> hwnd, flags |-> {}]

macos_get_app == <<Call("sharedApplication")>>

macos_init_app == macos_get_app \o <<[Call("setActivationPolicy:") EXCEPT !.cmd = "Regular"]>>

macos_view(self) == self.hwnd

\* msg_send!(hwnd, window); `obj` says whether the answer was a non-null object.
macos_window(self, obj) ==
  [Call("window") EXCEPT !.hwnd = macos_view(self), !.ret = IF obj THEN 1 ELSE 0]

\* A message to the window of self's view.
macos_send(self, sel) == [Call(sel) EXCEPT !.hwnd = macos_view(self)]

macos_get_hwnd(self) == Result(<<>>, NoPanic, self.hwnd, <<>>, self.hwnd, self.flags)

\* macos_create with init_app called after SciterCreateWindow.
macos_create_init_after_alloc(self, rc, flags, parent, ret) ==
  LET init == IF SW_MAIN \in flags THEN macos_init_app ELSE <<>>
      w == rc.right - rc.left
      h == rc.bottom - rc.top
      prc == IF w > 0 /\ h > 0 THEN PtrTo(rc) ELSE NullRect
      cw == [Call("SciterCreateWindow") EXCEPT
               !.flags = flags, !.prc = prc, !.parent = NullHandle, !.ret = ret]
  IN IF windowless
       THEN Result(init, NoPanic, self.hwnd, <<>>, self.hwnd, flags)
     ELSE IF ret = NullHandle
       THEN Result(<<cw>> \o init, CreateFailed, NullHandle, <<>>, ret, flags)
     ELSE Result(<<cw>> \o init, NoPanic, ret, <<>>, ret, flags)

macos_create(self, rc, flags, parent, ret) ==
  LET init == IF SW_MAIN \in flags THEN macos_init_app ELSE <<>>
      w == rc.right - rc.left
      h == rc.bottom - rc.top
      prc == IF w > 0 /\ h > 0 THEN PtrTo(rc) ELSE NullRect
      cw == [Call("SciterCreateWindow") EXCEPT
               !.flags = flags, !.prc = prc, !.parent = NullHandle, !.ret = ret]
  IN IF windowless
       THEN Result(init, NoPanic, self.hwnd, <<>>, self.hwnd, flags)
     ELSE IF ret = NullHandle
       THEN Result(init \o <<cw>>, CreateFailed, NullHandle, <<>>, ret, flags)
     ELSE Result(init \o <<cw>>, NoPanic, ret, <<>>, ret, flags)

macos_collapse(self, hide, obj) ==
  LET wnd == <<macos_window(self, obj)>>
  IN IF ~obj THEN Result(wnd, WindowIsNull, NullHandle, <<>>, self.hwnd, self.flags)
     ELSE IF hide
       THEN Result(wnd \o <<macos_send(self, "orderOut:")>>,
                   NoPanic, NullHandle, <<>>, self.hwnd, self.flags)
     ELSE Result(wnd \o <<macos_send(self, "performMiniaturize:")>>,
                 NoPanic, NullHandle, <<>>, self.hwnd, self.flags)

\* macos_expand that brings the window to front before activating the
\* application.
macos_expand_front_before_activate(self, maximize, obj) ==
  LET wnd == <<macos_window(self, obj)>>
      activate == IF SW_TITLEBAR \in self.flags
                    THEN macos_get_app \o <<Call("activateIgnoringOtherApps:")>>
                  ELSE <<>>
      front == <<macos_send(self, "makeKeyAndOrderFront:")>>
      zoom == IF maximize THEN <<macos_send(self, "performZoom:")>> ELSE <<>>
  IN IF ~obj THEN Result(wnd, WindowIsNull, NullHandle, <<>>, self.hwnd, self.flags)
     ELSE Result(wnd \o front \o activate \o zoom,
                 NoPanic, NullHandle, <<>>, self.hwnd, self.flags)

macos_expand(self, maximize, obj) ==
  LET wnd == <<macos_window(self, obj)>>
      activate == IF SW_TITLEBAR \in self.flags
                    THEN macos_get_app \o <<Call("activateIgnoringOtherApps:")>>
                  ELSE <<>>
      front == <<macos_send(self, "makeKeyAndOrderFront:")>>
      zoom == IF maximize THEN <<macos_send(self, "performZoom:")>> ELSE <<>>
  IN IF ~obj THEN Result(wnd, WindowIsNull, NullHandle, <<>>, self.hwnd, self.flags)
     ELSE Result(wnd \o activate \o front \o zoom,
                 NoPanic, NullHandle, <<>>, self.hwnd, self.flags)

macos_dismiss(self, obj) ==
  LET wnd == <<macos_window(self, obj)>>
  IN IF ~obj THEN Result(wnd, WindowIsNull, NullHandle, <<>>, self.hwnd, self.flags)
     ELSE Result(wnd \o <<macos_send(self, "close")>>,
                 NoPanic, NullHandle, <<>>, self.hwnd, self.flags)

macos_set_title(self, title, obj) ==
  LET s == NSString_from_str(title)
      wnd == <<macos_window(self, obj)>>
  IN IF ~obj THEN Result(wnd, WindowIsNull, NullHandle, <<>>, self.hwnd, self.flags)
     ELSE Result(wnd \o <<[macos_send(self, "setTitle:") EXCEPT !.text = s]>>,
                 NoPanic, NullHandle, <<>>, self.hwnd, self.flags)

macos_get_title(self) == Result(<<>>, NoPanic, NullHandle, <<>>, self.hwnd, self.flags)

macos_quit_app(self) ==
  Result(macos_get_app \o <<Call("terminate:")>>,
         NoPanic, NullHandle, <<>>, self.hwnd, self.flags)

\* What msg_send!(hwnd, window) can answer: nil for the nil view, the window for
\* the view of an open window.  The view of a closed window may have been
\* released with it, and the message to it is then undefined: it can answer nil
\* or a stale object.
WindowAnswers(hwnd) ==
  IF hwnd = NullHandle THEN {FALSE}
  ELSE IF WinOf(hwnd).st = "open" THEN {TRUE}
  ELSE BOOLEAN

\* ------------------------------------------------- the platform selector
\* pub type OsWindow = <backend>::OsWindow
OsWindow_new ==
  CASE backend = "windows" -> windows_new
    [] backend = "linux" -> linux_new
    [] backend = "macos" -> macos_new

OsWindow_from(hwnd) ==
  CASE backend = "windows" -> windows_from(hwnd)
    [] backend = "linux" -> linux_from(hwnd)
    [] backend = "macos" -> macos_from(hwnd)

get_hwnd(self) ==
  CASE backend = "windows" -> windows_get_hwnd(self)
    [] backend = "linux" -> linux_get_hwnd(self)
    [] backend = "macos" -> macos_get_hwnd(self)

create(self, rc, flags, parent, ret) ==
  CASE backend = "windows" -> windows_create(self, rc, flags, parent, ret)
    [] backend = "linux" -> linux_create(self, rc, flags, parent, ret)
    [] backend = "macos" -> macos_create(self, rc, flags, parent, ret)

collapse(self, hide, obj) ==
  CASE backend = "windows" -> windows_collapse(self, hide)
    [] backend = "linux" -> linux_collapse(self, hide)
    [] backend = "macos" -> macos_collapse(self, hide, obj)

expand(self, maximize, obj) ==
  CASE backend = "windows" -> windows_expand(self, maximize)
    [] backend = "linux" -> linux_expand(self, maximize)
    [] backend = "macos" -> macos_expand(self, maximize, obj)

dismiss(self, obj) ==
  CASE backend = "windows" -> windows_dismiss(self)
    [] backend = "linux" -> linux_dismiss(self)
    [] backend = "macos" -> macos_dismiss(self, obj)

set_title(self, title, obj) ==
  CASE backend = "windows" -> windows_set_title(self, title)
    [] backend = "linux" -> linux_set_title(self, title)
    [] backend = "macos" -> macos_set_title(self, title, obj)

get_title(self, w) ==
  CASE backend = "windows" -> windows_get_title(self, w)
    [] backend = "linux" -> linux_get_title(self)
    [] backend = "macos" -> macos_get_title(self)

quit_app(self) ==
  CASE backend = "windows" -> windows_quit_app(self)
    [] backend = "linux" -> linux_quit_app(self)
    [] backend = "macos" -> macos_quit_app(self)

\* The foreign calls run_app makes to enter the event source's loop.
run_app_calls ==
  CASE backend = "windows" -> <<>>
    [] backend = "linux" -> <<[Call("SciterExec") EXCEPT !.cmd = "SCITER_APP_LOOP"]>>
    [] backend = "macos" -> macos_get_app \o <<Call("finishLaunching"), Call("run")>>

\* What the engine can answer SciterCreateWindow with: null, or the handle of
\* the window it has just made.
FreeHandles == Handles \ Allocated
EngineAnswers ==
  {NullHandle} \cup {h \in FreeHandles : Objects < MaxObjects /\ \A g \in FreeHandles : h <= g}

\* msg_send!(hwnd, window) is sent on macOS only.
ObjAnswers(hwnd) == IF backend = "macos" THEN WindowAnswers(hwnd) ELSE {TRUE}

\* --------------------------------------------------------------- actions
\* The host calls into this layer from its own code before run_app or from a
\* handler the event source is dispatching to: one thread, so never while
\* run_app is waiting for an event.  run_app is the host's last call.
Callable == proc = "running" /\ runState \in {"idle", "dispatching"}

\* A trait method is called on instance i and does `r`.
Do(i, r) ==
  /\ Callable
  /\ inst[i].made # "none"
  /\ LET e == Exec(r.calls, Env)
     IN /\ wins' = e.wins
        /\ queue' = e.queue
        /\ quitPosted' = e.quitPosted
        /\ initCount' = e.initCount
        /\ proc' = IF r.panic # NoPanic THEN "panicked" ELSE e.proc
  /\ diag' = r.panic
  /\ UNCHANGED <<backend, windowless, runState>>

\* A method other than create: self's fields are what the method leaves.
Method(i, r) ==
  /\ Do(i, r)
  /\ inst' = [inst EXCEPT ![i].hwnd = r.hwnd, ![i].flags = r.flags]
  /\ lastCreate' = NoCreate

\* OsWindow::new()
New(i) ==
  /\ Callable
  /\ inst[i].made = "none"
  /\ \A j \in Inst : j < i => inst[j].made # "none"
  /\ Objects < MaxObjects
  /\ inst' = [inst EXCEPT ![i] = OsWindow_new]
  /\ lastCreate' = NoCreate
  /\ UNCHANGED <<backend, windowless, proc, diag, wins, initCount, queue, quitPosted,
                 runState, hist>>

\* OsWindow::from(hwnd): hwnd is null, or names a window that exists (one this
\* layer created, or one the host made itself).
From(i, hwnd) ==
  /\ Callable
  /\ inst[i].made = "none"
  /\ \A j \in Inst : j < i => inst[j].made # "none"
  /\ Objects + (IF hwnd \in FreeHandles THEN 1 ELSE 0) < MaxObjects
  /\ inst' = [inst EXCEPT ![i] = OsWindow_from(hwnd)]
  /\ wins' = IF hwnd \in Handles /\ wins[hwnd].st = "none"
               THEN [wins EXCEPT ![hwnd] = NewWindow]
             ELSE wins
  /\ lastCreate' = NoCreate
  /\ UNCHANGED <<backend, windowless, proc, diag, initCount, queue, quitPosted,
                 runState, hist>>

Create(i, rc, flags, parent, ret) ==
  LET r == create(inst[i], rc, flags, parent, ret)
  IN /\ SW_MAIN \in flags => initCount < MaxInit
     /\ Do(i, r)
     /\ inst' = [inst EXCEPT ![i].hwnd = r.hwnd, ![i].flags = r.flags,
                             ![i].made = IF r.panic = NoPanic THEN "created" ELSE @]
     /\ lastCreate' = [inst |-> i, rc |-> rc, flags |-> flags, parent |-> parent,
                       calls |-> r.calls, panic |-> r.panic, ret |-> r.ret]
     /\ UNCHANGED hist

GetHwnd(i) == Method(i, get_hwnd(inst[i])) /\ UNCHANGED hist

Collapse(i, hide, obj) == Method(i, collapse(inst[i], hide, obj)) /\ UNCHANGED hist

Expand(i, maximize, obj) == Method(i, expand(inst[i], maximize, obj)) /\ UNCHANGED hist

Dismiss(i, obj) ==
  /\ Len(queue) < MaxQueue
  /\ Method(i, dismiss(inst[i], obj))
  /\ hist' = [hist EXCEPT !.dismissInRun = @ \/ runState = "dispatching"]

SetTitle(i, title, obj) == Method(i, set_title(inst[i], title, obj)) /\ UNCHANGED hist

GetTitle(i) == Method(i, get_title(inst[i], WinOf(inst[i].hwnd))) /\ UNCHANGED hist

QuitApp(i) ==
  /\ Method(i, quit_app(inst[i]))
  /\ hist' = [hist EXCEPT !.quit = TRUE]

\* run_app: the calling thread enters the event source's loop.
RunApp(i) ==
  /\ proc = "running"
  /\ runState = "idle"
  /\ inst[i].made # "none"
  /\ LET e == Exec(run_app_calls, Env)
     IN /\ wins' = e.wins
        /\ queue' = e.queue
        /\ quitPosted' = e.quitPosted
        /\ initCount' = e.initCount
        /\ proc' = e.proc
  /\ runState' = "waiting"
  /\ lastCreate' = NoCreate
  /\ UNCHANGED <<backend, windowless, diag, inst, hist>>

\* One turn of the loop on an input event: it is retrieved and dispatched to
\* the host's handler.
InputEvent ==
  /\ proc = "running"
  /\ runState = "waiting"
  /\ runState' = "dispatching"
  /\ lastCreate' = NoCreate
  /\ UNCHANGED <<backend, windowless, proc, diag, inst, wins, initCount, queue,
                 quitPosted, hist>>

\* One turn of the loop on a posted close message: it is retrieved and
\* dispatched to the window's procedure, which destroys the window.
GetMessage ==
  /\ proc = "running"
  /\ runState = "waiting"
  /\ queue # <<>>
  /\ queue' = Tail(queue)
  /\ wins' = IF WinOf(Head(queue).hwnd).st = "open"
               THEN [wins EXCEPT ![Head(queue).hwnd] = ClosedWindow]
             ELSE wins
  /\ runState' = "dispatching"
  /\ lastCreate' = NoCreate
  /\ UNCHANGED <<backend, windowless, proc, diag, inst, initCount, quitPosted, hist>>

\* The handler the event was dispatched to returns to the loop.
DispatchReturn ==
  /\ proc = "running"
  /\ runState = "dispatching"
  /\ runState' = "waiting"
  /\ lastCreate' = NoCreate
  /\ UNCHANGED <<backend, windowless, proc, diag, inst, wins, initCount, queue,
                 quitPosted, hist>>

\* "Run the main app message loop until window been closed": once a window
\* has closed, the engine that owns the window may post the quit signal itself.
\* Whether and for which windows it does is the engine's choice.
WindowClosedQuit ==
  /\ proc = "running"
  /\ runState = "waiting"
  /\ \E h \in Handles : wins[h].st = "closed"
  /\ ~quitPosted
  /\ quitPosted' = TRUE
  /\ hist' = [hist EXCEPT !.engineQuit = TRUE]
  /\ lastCreate' = NoCreate
  /\ UNCHANGED <<backend, windowless, proc, diag, inst, wins, initCount, queue, runState>>

\* The event source reports termination: the posted quit signal is retrieved
\* once no other message is pending, and run_app returns.
LoopQuit ==
  /\ proc = "running"
  /\ runState = "waiting"
  /\ queue = <<>>
  /\ quitPosted
  /\ quitPosted' = FALSE
  /\ runState' = "returned"
  /\ lastCreate' = NoCreate
  /\ UNCHANGED <<backend, windowless, proc, diag, inst, wins, initCount, queue, hist>>

Next ==
  \/ \E i \in Inst : New(i)
  \/ \E i \in Inst, hwnd \in {NullHandle} \cup Handles : From(i, hwnd)
  \/ \E i \in Inst, q \in CreateRequests,
        ret \in (IF windowless THEN {NullHandle} ELSE EngineAnswers) :
       Create(i, q.rc, q.flags, q.parent, ret)
  \/ \E i \in Inst : GetHwnd(i)
  \/ \E i \in Inst, hide \in BOOLEAN :
       \E obj \in ObjAnswers(inst[i].hwnd) : Collapse(i, hide, obj)
  \/ \E i \in Inst, maximize \in BOOLEAN :
       \E obj \in ObjAnswers(inst[i].hwnd) : Expand(i, maximize, obj)
  \/ \E i \in Inst : \E obj \in ObjAnswers(inst[i].hwnd) : Dismiss(i, obj)
  \/ \E i \in Inst, title \in Texts :
       \E obj \in ObjAnswers(inst[i].hwnd) : SetTitle(i, title, obj)
  \/ \E i \in Inst : GetTitle(i)
  \/ \E i \in Inst : QuitApp(i)
  \/ \E i \in Inst : RunApp(i)
  \/ InputEvent
  \/ GetMessage
  \/ DispatchReturn
  \/ WindowClosedQuit
  \/ LoopQuit

Spec == Init /\ [][Next]_vars

\* ---------------------------------------------------------------- claims
IsInitCall(c) ==
  \/ c.fn \in {"OleInitialize", "setActivationPolicy:"}
  \/ c.fn = "SciterExec" /\ c.cmd = "SCITER_APP_INIT"

IsAllocCall(c) == c.fn = "SciterCreateWindow"

CreateCalls == {lastCreate.calls[k] : k \in 1..Len(lastCreate.calls)}

\* Instance i holds the handle of an open window it has not asked to close.
Undismissed(i) ==
  /\ proc = "running"
  /\ inst[i].made = "created"
  /\ WinOf(inst[i].hwnd).st = "open"
  /\ \A k \in 1..Len(queue) : queue[k].hwnd # inst[i].hwnd

\* The environment after the foreign calls of one method, and of two in a row.
After(r) == Exec(r.calls, Env)
AfterBoth(r1, r2) == Exec(r2.calls, Exec(r1.calls, Env))

\* C1: in a process no panic has ended, application-level init has run at most
\* once however many main-flagged create calls were made, and exactly once as
\* soon as a main-flagged create call was made.
C1_AppInitRunsExactlyOnce ==
  proc = "running" =>
    /\ initCount <= 1
    /\ (lastCreate.inst # 0 /\ SW_MAIN \in lastCreate.flags) => initCount = 1

\* C2: run_app returns exactly when a quit has been processed: it has not
\* returned while no quit signal was posted, and once quit_app has been called
\* from a dispatched event the process is never ended with run_app still inside
\* its loop (the loop ends by run_app returning).
C2_RunAppReturnsExactlyOnQuit ==
  /\ runState = "returned" => (hist.quit \/ hist.engineQuit)
  /\ ~(hist.quit /\ runState \in {"waiting", "dispatching"} /\ proc = "exited")

\* C3 as stated: get_hwnd returns null for an instance built by new() until
\* create is called, and a non-null handle after every create call that
\* returns normally, in every build configuration.
C3_HandleNonNullAfterCreateInEveryBuild ==
  proc = "running" =>
    \A i \in Inst :
      /\ inst[i].made = "new" => get_hwnd(inst[i]).ret = NullHandle
      /\ inst[i].made = "created" => get_hwnd(inst[i]).ret # NullHandle

\* C3 amended: get_hwnd returns null for an instance built by new() until
\* create is called, and in a build without the windowless feature it returns
\* a non-null handle after every create call that returns normally.
C3_HandleNullUntilCreate ==
  proc = "running" =>
    \A i \in Inst :
      /\ inst[i].made = "new" => get_hwnd(inst[i]).ret = NullHandle
      /\ (~windowless /\ inst[i].made = "created") => get_hwnd(inst[i]).ret # NullHandle

C3_Witness ==
  /\ proc = "running"
  /\ ~windowless
  /\ \E i, j \in Inst :
       /\ inst[i].made = "new" /\ get_hwnd(inst[i]).ret = NullHandle
       /\ inst[j].made = "created" /\ get_hwnd(inst[j]).ret # NullHandle

\* C4: on every backend, when the engine answers the window-creation call of a
\* create with the null handle, that create panics with "Failed to create
\* window!" and the process is aborted with that diagnostic; a create that
\* called the engine and returned normally returned a non-null handle.
C4_NullHandleAborts ==
  /\ \A c \in CreateCalls :
       (IsAllocCall(c) /\ c.ret = NullHandle) =>
          /\ lastCreate.panic = CreateFailed
          /\ proc = "panicked"
          /\ diag = CreateFailed
  /\ (lastCreate.panic = NoPanic /\ \E c \in CreateCalls : IsAllocCall(c)) =>
        /\ lastCreate.ret # NullHandle
        /\ inst[lastCreate.inst].hwnd # NullHandle

C4_Witness ==
  /\ backend = "linux"
  /\ \E c \in CreateCalls : IsAllocCall(c) /\ c.ret = NullHandle
  /\ proc = "panicked"
  /\ diag = CreateFailed

\* C5: in a create call whose flags contain SW_MAIN an init call is issued, and
\* it is issued before the engine's window-allocation call of that create; in a
\* create call whose flags do not contain SW_MAIN no init call is issued.
C5_InitBeforeAllocation ==
  lastCreate.inst # 0 =>
    LET calls == lastCreate.calls
        n == Len(calls)
    IN IF SW_MAIN \in lastCreate.flags
         THEN \E k \in 1..n :
                /\ IsInitCall(calls[k])
                /\ \A j \in 1..n : IsAllocCall(calls[j]) => k < j
       ELSE \A k \in 1..n : ~IsInitCall(calls[k])

C5_Witness ==
  /\ lastCreate.inst # 0
  /\ SW_MAIN \in lastCreate.flags
  /\ \E k, j \in 1..Len(lastCreate.calls) :
       /\ IsInitCall(lastCreate.calls[k])
       /\ IsAllocCall(lastCreate.calls[j])
       /\ k < j

\* C6: on the backends without native title support (Linux, and macOS for
\* reading) a get_title call never aborts the process.
C6_GetTitleNeverCrashes ==
  [][(backend \in {"linux", "macos"} /\ \E i \in Inst : GetTitle(i))
       => proc' = "running"]_vars

\* C7: on Windows and macOS, for every non-empty text t, set_title(t) on a
\* created window followed by get_title() returns t.
C7_TitleRoundTrip ==
  \A i \in Inst :
    (backend \in {"windows", "macos"} /\ Undismissed(i)) =>
      \A t \in Texts :
        LET s == set_title(inst[i], t, TRUE)
            g == get_title(inst[i], After(s).wins[inst[i].hwnd])
        IN s.panic = NoPanic /\ g.panic = NoPanic /\ g.title = t

\* C8: for a created, not yet dismissed window, collapse(true) then
\* expand(false) leaves it Shown, expand(true) leaves it Maximized, and
\* collapse(h) and expand(m) issued twice in a row leave it in the state that
\* issuing them once does.
C8_CollapseExpandStates ==
  \A i \in Inst :
    Undismissed(i) =>
      LET self == inst[i]
          St(e) == WindowState(e.wins[self.hwnd])
      IN /\ St(AfterBoth(collapse(self, TRUE, TRUE), expand(self, FALSE, TRUE))) = "Shown"
         /\ St(After(expand(self, TRUE, TRUE))) = "Maximized"
         /\ \A b \in BOOLEAN :
              /\ St(AfterBoth(collapse(self, b, TRUE), collapse(self, b, TRUE)))
                   = St(After(collapse(self, b, TRUE)))
              /\ St(AfterBoth(expand(self, b, TRUE), expand(self, b, TRUE)))
                   = St(After(expand(self, b, TRUE)))

IsQuitCall(c) ==
  \/ c.fn \in {"PostQuitMessage", "terminate:"}
  \/ c.fn = "SciterExec" /\ c.cmd = "SCITER_APP_STOP"

\* C9 as stated: dismiss never stops the run loop: when dismiss was called
\* while run_app was pumping events and quit_app was never called, run_app has
\* not returned; and no foreign call dismiss makes is a quit or stop call.
C9_DismissNeverStopsRunLoop ==
  /\ (hist.dismissInRun /\ ~hist.quit) => runState # "returned"
  /\ \A i \in Built : \A obj \in ObjAnswers(inst[i].hwnd) :
       LET calls == dismiss(inst[i], obj).calls
       IN \A k \in 1..Len(calls) : ~IsQuitCall(calls[k])

\* C9 amended: a dismiss call posts no quit or stop signal to the event source,
\* does not end the process and leaves run_app where it is; and run_app has not
\* returned unless a quit signal was posted, by quit_app or by the engine after
\* a window closed.
C9_DismissPostsNoQuit ==
  /\ [][(\E i \in Inst : \E obj \in BOOLEAN : Dismiss(i, obj))
          => /\ quitPosted' = quitPosted
             /\ proc' # "exited"
             /\ runState' = runState]_vars
  /\ [](runState = "returned" => (hist.quit \/ hist.engineQuit))

C9_Witness ==
  /\ proc = "running"
  /\ hist.dismissInRun
  /\ ~hist.quit
  /\ ~quitPosted
  /\ runState = "waiting"
  /\ \E h \in Handles : wins[h].st = "closed"

\* C10: on every backend, a create in a build without the windowless feature
\* with a geometry whose width or height is zero or negative, for which the
\* engine makes a window, does not fail and passes no rectangle to the engine's
\* window-creation call.
C10_NoRectangleForEmptyGeometry ==
  (/\ lastCreate.inst # 0
   /\ ~windowless
   /\ \/ lastCreate.rc.right - lastCreate.rc.left <= 0
      \/ lastCreate.rc.bottom - lastCreate.rc.top <= 0
   /\ \A c \in CreateCalls : IsAllocCall(c) => c.ret # NullHandle) =>
     /\ lastCreate.panic = NoPanic
     /\ \E c \in CreateCalls : IsAllocCall(c)
     /\ \A c \in CreateCalls : IsAllocCall(c) => c.prc.null

\* C11: on every backend and for every handle h, the instance OsWindow::from(h)
\* builds answers get_hwnd with exactly h, and building it is no create call,
\* runs no application-level init and makes no foreign call at all (so none to
\* the engine's window-allocation entry point).
C11_FromWrapsHandle ==
  [][\A i \in Inst : \A h \in {NullHandle} \cup Handles :
       From(i, h) =>
         /\ get_hwnd(inst'[i]).ret = h
         /\ get_hwnd(inst'[i]).calls = <<>>
         /\ lastCreate' = NoCreate
         /\ initCount' = initCount
         /\ inst'[i].made = "from"]_vars

C11_Witness ==
  \E i \in Inst :
    /\ inst[i].made = "from"
    /\ inst[i].hwnd # NullHandle
    /\ get_hwnd(inst[i]).ret = inst[i].hwnd
    /\ initCount = 0
    /\ lastCreate = NoCreate

\* C12 as stated: once a create has recorded flags on an instance, no later
\* operation on it that returns, a further create with different flags
\* included, changes the flags the instance holds.
C12_FlagsImmutable ==
  [][\A i \in Inst :
       (inst[i].made = "created" /\ proc' = "running") =>
          inst'[i].flags = inst[i].flags]_vars

\* C12 amended: the flags an instance holds change only in a create call on that
\* instance, and after every create call the instance holds the flags of that
\* call (a further create with different flags replaces them).
C12_FlagsWrittenByCreateOnly ==
  /\ [][\A i \in Inst :
          inst'[i].flags # inst[i].flags =>
            (lastCreate'.inst = i /\ inst'[i].flags = lastCreate'.flags)]_vars
  /\ [](lastCreate.inst # 0 => inst[lastCreate.inst].flags = lastCreate.flags)

\* The only instance built has been given a main-flagged create and then a
\* create without flags.
C12_Witness ==
  /\ proc = "running"
  /\ Built = {1}
  /\ initCount = 1
  /\ lastCreate.inst = 1
  /\ lastCreate.flags = {}
  /\ inst[1].flags = {}

\* A foreign call that asks for a change of a window's state or title.
IsStateChangeCall(c) ==
  c.fn \in {"ShowWindow", "PostMessageW", "SetWindowTextW", "SciterWindowExec",
            "orderOut:", "performMiniaturize:", "makeKeyAndOrderFront:",
            "performZoom:", "close", "setTitle:"}

\* What instance i can be asked next among collapse, expand and set_title.
LifecycleCalls(i) ==
  UNION {{collapse(inst[i], b, obj), expand(inst[i], b, obj)} \cup
           {set_title(inst[i], t, obj) : t \in Texts} :
         b \in BOOLEAN, obj \in ObjAnswers(inst[i].hwnd)}

\* C13: Closed is terminal: once the close of the window an instance dismissed
\* has taken effect, no collapse, expand or set_title call on the instance moves
\* the window out of Closed, and none issues a state-change request against the
\* closed window.
C13_ClosedIsTerminal ==
  \A i \in Built :
    (proc = "running" /\ WinOf(inst[i].hwnd).st = "closed") =>
      \A r \in LifecycleCalls(i) :
        /\ WindowState(After(r).wins[inst[i].hwnd]) = "Closed"
        /\ \A k \in 1..Len(r.calls) :
             ~(IsStateChangeCall(r.calls[k]) /\ r.calls[k].hwnd = inst[i].hwnd)

\* C14: on every backend a create in a build without the windowless feature
\* calls the engine's SciterCreateWindow exactly once, with the caller's flags
\* and the caller's parent handle, stores the handle the engine answered on the
\* instance, and returns that handle when it returns.
C14_CreatePassesArgumentsAndStoresHandle ==
  (lastCreate.inst # 0 /\ ~windowless) =>
    LET calls == lastCreate.calls
        allocs == {k \in 1..Len(calls) : IsAllocCall(calls[k])}
    IN /\ Cardinality(allocs) = 1
       /\ \A k \in allocs :
            /\ calls[k].flags = lastCreate.flags
            /\ calls[k].parent = lastCreate.parent
            /\ inst[lastCreate.inst].hwnd = calls[k].ret
            /\ lastCreate.panic = NoPanic => lastCreate.ret = calls[k].ret

IsExpandMessage(c) ==
  c.fn \in {"activateIgnoringOtherApps:", "makeKeyAndOrderFront:", "performZoom:"}

\* The selectors of the messages among activation, front and zoom, in the order
\* the calls were made.
ExpandMessages(calls) ==
  LET msgs == SelectSeq(calls, IsExpandMessage)
  IN [k \in 1..Len(msgs) |-> msgs[k].fn]

C16_HandleAndFlagsWrittenByCreateOnly ==
  [][\A i \in Inst :
       (inst[i].made # "none" /\ lastCreate'.inst # i) =>
          /\ inst'[i].hwnd = inst[i].hwnd
          /\ inst'[i].flags = inst[i].flags
          /\ get_hwnd(inst'[i]).ret = get_hwnd(inst[i]).ret]_vars

\* An instance still answers the handle of the window it dismissed, after the
\* close took effect and after quit_app was called.
C16_Witness ==
  /\ proc = "running"
  /\ hist.quit
  /\ \E i \in Inst :
       /\ inst[i].hwnd # NullHandle
       /\ WinOf(inst[i].hwnd).st = "closed"
       /\ get_hwnd(inst[i]).ret = inst[i].hwnd

\* C17: in a build with the windowless feature a create call on any backend
\* makes no call to SciterCreateWindow and returns normally; it runs
\* application-level init once if and only if its flags contain SW_MAIN,
\* records its flags, leaves the stored handle as it was and returns that
\* handle: null for an instance as new() built it, the wrapped handle for one
\* as from(h) built it.
C17_WindowlessCreate ==
  [][\A i \in Inst :
       (windowless /\ lastCreate'.inst = i /\ vars' # vars) =>
          LET calls == lastCreate'.calls
          IN /\ \A k \in 1..Len(calls) : ~IsAllocCall(calls[k])
             /\ lastCreate'.panic = NoPanic
             /\ proc' = "running"
             /\ IF SW_MAIN \in lastCreate'.flags
                  THEN /\ \E k \in 1..Len(calls) : IsInitCall(calls[k])
                       /\ initCount' = initCount + 1
                ELSE initCount' = initCount
             /\ inst'[i].flags = lastCreate'.flags
             /\ inst'[i].hwnd = inst[i].hwnd
             /\ lastCreate'.ret = inst[i].hwnd
             /\ inst[i].made = "new" => lastCreate'.ret = NullHandle
             /\ wins' = wins]_vars

\* A main-flagged windowless create has just returned the handle its instance
\* wraps, and an instance built by new() has been created with its handle
\* still null.
C17_Witness ==
  /\ windowless
  /\ proc = "running"
  /\ lastCreate.inst # 0
  /\ SW_MAIN \in lastCreate.flags
  /\ lastCreate.ret # NullHandle
  /\ inst[lastCreate.inst].hwnd = lastCreate.ret
  /\ initCount >= 1
  /\ \E j \in Inst : inst[j].made = "created" /\ inst[j].hwnd = NullHandle

====
